---- MODULE Spec2Model ----
(***************************************************************************)
(* Model of the tutorial-run-and-snapshot pipeline                         *)
(* (scripts/generate-article-outputs.sh) together with the notebook cells  *)
(* it runs (TUTORIAL-RUNME.md).                                            *)
(*                                                                         *)
(* The workspace is a file system: a function from the paths that exist    *)
(* (tuples of path components) to a content token, DIR for a directory.    *)
(* The output directory $OUT (scripts/outputs) is kept apart from the      *)
(* workspace in the variables outputs and snapshots: no cell touches it    *)
(* and the tree listing excludes it.                                       *)
(***************************************************************************)
EXTENDS Integers, Sequences, FiniteSets, TLC

VARIABLES
  fs,         \* the project directory: path -> content
  outputs,    \* $OUT/<stem>.txt: stem -> captured content
  snapshots,  \* $OUT/snapshots/<label>/: label -> [copy, tree]
  pc,         \* index in Program of the next step of the running script
  exitStatus, \* RUNNING while the script runs, then its exit status
  trace,      \* steps the current run has executed, with their outcome
  taken,      \* label -> workspace snapshot_files was called on, and its status
  firstSnap,  \* label -> the snapshot directory as its first call left it
  printed,    \* the two counts the summary prints, NotPrinted before
  runs,       \* pipeline runs started so far
  nfail,      \* failing cells so far
  cpImpl,     \* the cp of the machine: GNU coreutils or BSD
  calls,      \* snapshot_files calls made by the snapshot driver
  broken,     \* cells that fail every time they run on this machine
  prev,       \* $OUT as the previous run left it
  tape,       \* record-all.sh: index of the next tape of the loop
  FAILED,     \* record-all.sh: its counter of failed tapes
  recorded,   \* record-all.sh: the tapes attempted, in order, with outcome
  gifs,       \* the recordings in vhs/output
  recPc,      \* record-all.sh: where the script stands
  recExit,    \* record-all.sh: RUNNING, then its exit status
  arrays,     \* EventStore: the arrays alive, reference -> sequence of events
  held,       \* EventStore: the array the caller got from its last call
  appended,   \* EventStore: the events appended so far, in call order
  clock,      \* Date.now()
  got,        \* EventStore: the last query and what it returned
  users,      \* UserService: the private Map, id -> UserRecord
  userRet,    \* UserService: the last call and what it returned
  authCall    \* AuthHandler: the last authenticate call and its result

recVars == <<tape, FAILED, recorded, gifs, recPc, recExit>>

sampleVars == <<arrays, held, appended, clock, got, users, userRet, authCall>>

pipeVars == <<fs, outputs, snapshots, pc, exitStatus, trace, taken, firstSnap,
              printed, runs, nfail, cpImpl, calls, broken, prev>>

vars == <<fs, outputs, snapshots, pc, exitStatus, trace, taken, firstSnap,
          printed, runs, nfail, cpImpl, calls, broken, prev, recVars, sampleVars>>

-----------------------------------------------------------------------------
(* Bounds *)

MaxFail == 1
MaxRuns == 2
MaxCalls == 3
MaxLabels == 2
MaxAppends == 3
MaxClock == 1
MaxUsers == 3
MaxPassword == 9

-----------------------------------------------------------------------------
(* Paths and contents *)

DIR == "<dir>"
RUNNING == -1

PkgJson == <<"package.json">>
PkgLock == <<"package-lock.json">>
TsConfig == <<"tsconfig.json">>
DpConfig == <<"delivery-process.config.ts">>
SrcDir == <<"src">>
DocsDir == <<"docs-generated">>
SampleDir == <<"src", "sample-sources">>
SpecsDir == <<"src", "specs">>
StubsDir == <<"src", "stubs">>
UserServiceTs == <<"src", "sample-sources", "user-service.ts">>
\* the auth handler written over the user service
AuthHandlerTsOverUserService == <<"src", "sample-sources", "user-service.ts">>

AuthHandlerTs == <<"src", "sample-sources", "auth-handler.ts">>
EventStoreTs == <<"src", "sample-sources", "event-store.ts">>
UserRegFeature == <<"src", "specs", "user-registration.feature">>
AuthFeature == <<"src", "specs", "authentication.feature">>
NotificationStub == <<"src", "stubs", "notification-service.stub.ts">>
PatternsMd == <<"docs-generated", "PATTERNS.md">>
RoadmapMd == <<"docs-generated", "ROADMAP.md">>
BusinessRulesMd == <<"docs-generated", "BUSINESS-RULES.md">>
OverviewMd == <<"docs-generated", "OVERVIEW.md">>
ArchitectureMd == <<"docs-generated", "ARCHITECTURE.md">>
TaxonomyMd == <<"docs-generated", "TAXONOMY.md">>
ReferenceMd == <<"docs-generated", "IDENTITY-PERSISTENCE-REFERENCE.md">>
InstalledPkg == <<"node_modules", "@libar-dev", "delivery-process", "package.json">>
Notebook == <<"TUTORIAL-RUNME.md">>
ThisScript == <<"scripts", "generate-article-outputs.sh">>
GitHead == <<".git", "HEAD">>
TutorialMd == <<".tutorial-snapshots", "01-v1-manual", "TUTORIAL.md">>
RecordAllSh == <<"vhs", "record-all.sh">>
VhsOutput == <<"vhs", "output">>
OldGif == <<"vhs", "output", "part-00-setup.gif">>
OutDir == <<"scripts", "outputs">>

IsPrefix(d, p) == Len(d) <= Len(p) /\ SubSeq(p, 1, Len(d)) = d

Parent(p) == SubSeq(p, 1, Len(p) - 1)

Exists(f, p) == p \in DOMAIN f

IsDir(f, p) == p \in DOMAIN f /\ f[p] = DIR

IsFile(f, p) == p \in DOMAIN f /\ f[p] # DIR

\* the entries of f with a key in S
Restrict(f, S) == [q \in S |-> f[q]] @@ <<>>

\* rm -rf p
RmRf(f, p) == Restrict(f, {r \in DOMAIN f : ~IsPrefix(p, r)})

\* cat > p, writeFileSync(p): needs the parent directory, fails on a directory
WriteFile(f, p, c) ==
  IF (Len(p) = 1 \/ IsDir(f, Parent(p))) /\ ~IsDir(f, p)
  THEN (p :> c) @@ f
  ELSE f

\* mkdir -p p
MkdirP(f, p) ==
  LET pre == {SubSeq(p, 1, n) : n \in 1..Len(p)}
  IN IF \E q \in pre : IsFile(f, q)
     THEN f
     ELSE f @@ [q \in pre |-> DIR]

-----------------------------------------------------------------------------
(* The notebook cells: what each cell's commands do to the workspace *)

\* npm run <script>: needs the scripts of add-npm-scripts, the installed
\* package and (for the CLIs) the configuration file
CanNpmRun(f) ==
  /\ IsFile(f, PkgJson) /\ f[PkgJson] = "scripts"
  /\ IsFile(f, InstalledPkg)
  /\ IsFile(f, DpConfig)

RECURSIVE WriteAll(_, _, _)
WriteAll(f, ps, c) ==
  IF ps = <<>> THEN f ELSE WriteAll(WriteFile(f, Head(ps), c), Tail(ps), c)

\* generate-docs.js -g ... -f: writes into output.directory
Generate(f, ps) ==
  IF CanNpmRun(f) THEN WriteAll(MkdirP(f, DocsDir), ps, "generated") ELSE f

\* the reset without docs-generated/ in its rm -rf
ResetWorkspaceKeepsDocs(f) ==
  WriteFile(RmRf(RmRf(RmRf(f, SrcDir), TsConfig), DpConfig), PkgJson, "minimal")

ResetWorkspace(f) ==
  WriteFile(RmRf(RmRf(RmRf(RmRf(f, SrcDir), DocsDir), TsConfig), DpConfig),
            PkgJson, "minimal")

\* npm install: installs the declared dependencies of package.json; without
\* a package.json nothing is declared and nothing is installed
InstallDeps(f) ==
  IF IsFile(f, PkgJson)
  THEN WriteFile(WriteFile(MkdirP(f, Parent(InstalledPkg)), InstalledPkg, "1.0.0-pre.0"),
                 PkgLock, "lock")
  ELSE f

\* add-npm-scripts keeping a copy of the package.json it read
AddNpmScriptsWithBackup(f) ==
  IF IsFile(f, PkgJson)
  THEN WriteFile(WriteFile(f, <<"package.json.bak">>, f[PkgJson]), PkgJson, "scripts")
  ELSE f

AddNpmScripts(f) ==
  IF IsFile(f, PkgJson) THEN WriteFile(f, PkgJson, "scripts") ELSE f

GenAll(f) ==
  Generate(f, <<PatternsMd, RoadmapMd, OverviewMd, ArchitectureMd,
                BusinessRulesMd, TaxonomyMd>>
              \o (IF IsFile(f, DpConfig) /\ f[DpConfig] = "reference"
                  THEN <<ReferenceMd>> ELSE <<>>))

GenReference(f) ==
  IF IsFile(f, DpConfig) /\ f[DpConfig] = "reference"
  THEN Generate(f, <<ReferenceMd>>) ELSE f

\* the cells whose npm script has reference-docs among its generators:
\* docs:all (-g patterns,roadmap,reference-docs,...) and docs:reference
ReferenceGeneratorCells == {"gen-all", "gen-reference"}

CellEffect(cell, f) ==
  CASE cell = "reset-workspace" -> ResetWorkspace(f)
    [] cell = "install-deps" -> InstallDeps(f)
    [] cell = "create-tsconfig" -> WriteFile(f, TsConfig, "tsconfig")
    [] cell = "create-folders" -> MkdirP(MkdirP(MkdirP(f, SampleDir), SpecsDir), StubsDir)
    [] cell = "create-config" -> WriteFile(f, DpConfig, "base")
    [] cell = "add-npm-scripts" -> AddNpmScripts(f)
    [] cell = "create-user-service-v1" -> WriteFile(f, UserServiceTs, "v1")
    [] cell = "create-user-service-v2" -> WriteFile(f, UserServiceTs, "v2")
    [] cell = "create-user-service-final" -> WriteFile(f, UserServiceTs, "final")
    [] cell = "create-auth-handler" -> WriteFile(f, AuthHandlerTs, "auth-handler")
    [] cell = "create-event-store" -> WriteFile(f, EventStoreTs, "event-store")
    [] cell = "gen-patterns" -> Generate(f, <<PatternsMd>>)
    [] cell = "gen-roadmap" -> Generate(f, <<RoadmapMd>>)
    [] cell = "create-user-reg-feature" -> WriteFile(f, UserRegFeature, "user-registration")
    [] cell = "create-auth-feature" -> WriteFile(f, AuthFeature, "authentication")
    [] cell = "gen-business-rules" -> Generate(f, <<BusinessRulesMd>>)
    [] cell = "create-notification-stub" -> WriteFile(f, NotificationStub, "notification-stub")
    [] cell = "gen-all" -> GenAll(f)
    [] cell = "add-reference-config" -> WriteFile(f, DpConfig, "reference")
    [] cell = "gen-reference" -> GenReference(f)
    [] OTHER -> f

\* pkg.scripts = { ... }: the script names add-npm-scripts defines
DefinedScripts ==
  {"process:query", "process:overview", "process:status", "process:list",
   "process:tags", "process:sources", "process:rules", "process:stubs",
   "docs:patterns", "docs:roadmap", "docs:reference", "docs:overview",
   "docs:architecture", "docs:business-rules", "docs:taxonomy", "docs:all",
   "docs:list", "lint:patterns", "lint:validate"}

\* the scripts a cell invokes with npm run
ScriptsOf(cell) ==
  CASE cell \in {"first-overview", "checkpoint-2", "overview-after-first",
                 "overview-after-richness", "overview-with-deps",
                 "overview-after-gherkin", "final-overview"} -> {"process:overview"}
    [] cell \in {"sources-after-first", "sources-after-gherkin"} -> {"process:sources"}
    [] cell = "tags-after-richness" -> {"process:tags"}
    [] cell \in {"dep-tree-auth", "arch-contexts", "list-roadmap",
                 "arch-neighborhood", "arch-blocking", "arch-dangling",
                 "pattern-detail", "count-roadmap"} -> {"process:query"}
    [] cell = "checkpoint-5" -> {"process:sources", "process:overview", "process:query"}
    [] cell = "gen-patterns" -> {"docs:patterns"}
    [] cell = "gen-roadmap" -> {"docs:roadmap"}
    [] cell = "query-rules" -> {"process:rules"}
    [] cell = "gen-business-rules" -> {"docs:business-rules"}
    [] cell = "checkpoint-7" -> {"process:sources", "process:rules"}
    [] cell = "query-stubs" -> {"process:stubs"}
    [] cell = "checkpoint-8" -> {"process:stubs", "process:sources"}
    [] cell = "gen-all" -> {"docs:all"}
    [] cell = "gen-reference" -> {"docs:reference"}
    [] cell = "list-generators" -> {"docs:list"}
    [] cell = "lint-patterns" -> {"lint:patterns"}
    [] cell = "final-verification" -> {"process:query", "process:rules"}
    [] OTHER -> {}

\* the directory of create-folders a cell writes its file into with cat >
WritesUnder(cell) ==
  CASE cell \in {"create-user-service-v1", "create-user-service-v2",
                 "create-user-service-final", "create-auth-handler",
                 "create-event-store"} -> SampleDir
    [] cell \in {"create-user-reg-feature", "create-auth-feature"} -> SpecsDir
    [] cell = "create-notification-stub" -> StubsDir
    [] OTHER -> <<>>

-----------------------------------------------------------------------------
(* The orchestrator's fixed step list *)

Clean == [kind |-> "clean", name |-> "outputs"]
Cell(n) == [kind |-> "cell", name |-> n]
Env == [kind |-> "env", name |-> "environment"]
Snap(l) == [kind |-> "snap", name |-> l]
Summary == [kind |-> "summary", name |-> "summary"]

\* the order of the design text: environment capture right after the reset
Phase0EnvironmentAfterReset ==
  << Clean,
     Cell("reset-workspace"), Env, Cell("install-deps"), Snap("00-setup") >>

Phase0 ==
  << Clean,
     Cell("reset-workspace"), Cell("install-deps"), Env, Snap("00-setup") >>

Part1 ==
  << Cell("verify-deps"), Cell("create-tsconfig"), Cell("create-folders"),
     Cell("checkpoint-1"), Snap("01-project-setup") >>

\* Part 2 with the first query run before the scripts are added
Part2ScriptsLate ==
  << Cell("create-config"), Cell("first-overview"), Cell("add-npm-scripts"),
     Cell("checkpoint-2"), Snap("02-configuration") >>

Part2 ==
  << Cell("create-config"), Cell("add-npm-scripts"), Cell("first-overview"),
     Cell("checkpoint-2"), Snap("02-configuration") >>

Part3 ==
  << Cell("create-user-service-v1"), Cell("overview-after-first"),
     Cell("sources-after-first"), Snap("03-first-annotation") >>

Part4 ==
  << Cell("create-user-service-v2"), Cell("tags-after-richness"),
     Cell("overview-after-richness"), Snap("04-richness") >>

\* Part 5 with the first generator cell of Part 6 run before its snapshot
Part5WithDocs ==
  << Cell("create-user-service-final"), Cell("create-auth-handler"),
     Cell("create-event-store"), Cell("overview-with-deps"),
     Cell("dep-tree-auth"), Cell("arch-contexts"), Cell("list-roadmap"),
     Cell("checkpoint-5"), Cell("gen-patterns"), Snap("05-relationships") >>

Part5 ==
  << Cell("create-user-service-final"), Cell("create-auth-handler"),
     Cell("create-event-store"), Cell("overview-with-deps"),
     Cell("dep-tree-auth"), Cell("arch-contexts"), Cell("list-roadmap"),
     Cell("checkpoint-5"), Snap("05-relationships") >>

Part6 ==
  << Cell("gen-patterns"), Cell("gen-roadmap"), Cell("list-generated"),
     Cell("checkpoint-6"), Snap("06-doc-generation") >>

Part7 ==
  << Cell("create-user-reg-feature"), Cell("create-auth-feature"),
     Cell("query-rules"), Cell("gen-business-rules"),
     Cell("overview-after-gherkin"), Cell("sources-after-gherkin"),
     Cell("checkpoint-7"), Snap("07-gherkin") >>

Part8 ==
  << Cell("create-notification-stub"), Cell("query-stubs"),
     Cell("checkpoint-8"), Snap("08-stubs") >>

Part9 ==
  << Cell("gen-all"), Cell("list-all-generated"), Cell("add-reference-config"),
     Cell("gen-reference"), Cell("list-generators"), Cell("lint-patterns"),
     Cell("checkpoint-9"), Snap("09-full-generation") >>

Part10 ==
  << Cell("arch-neighborhood"), Cell("arch-blocking"), Cell("arch-dangling"),
     Cell("pattern-detail"), Cell("count-roadmap"), Cell("final-overview"),
     Cell("final-verification"), Snap("10-advanced") >>

Program ==
  Phase0 \o Part1 \o Part2 \o Part3 \o Part4 \o Part5 \o Part6 \o Part7
         \o Part8 \o Part9 \o Part10 \o <<Summary>>

NumSteps == Len(Program)

StepsOfKind(k) == {i \in 1..NumSteps : Program[i].kind = k}

CellNames == {Program[i].name : i \in StepsOfKind("cell")}

Labels == {Program[i].name : i \in StepsOfKind("snap")}

-----------------------------------------------------------------------------
(* Helpers of the script *)

Empty == <<>>

\* run_and_capture without its || true: the cell's status is returned
RunAndCaptureStatusUnguarded(st) == IF st = "ok" THEN 0 ELSE 1

\* runme run "$cell" ... > "$OUT/$cell.txt" 2>&1 || true
\* st is the outcome of the cell's command sequence; the value is the status
\* run_and_capture returns to the script
RunAndCaptureStatus(st) == 0

\* every cell redirected into one file
OutputStemShared(cell) == "cell"

\* the file run_and_capture redirects into: "$OUT/$cell.txt"
OutputStem(cell) == cell

\* every label snapshotted into one directory
SnapshotDirShared(label) == "snapshots"

\* the directory snapshot_files fills: "$OUT/snapshots/$label"
SnapshotDir(label) == label

\* merged stdout+stderr of one execution of a cell
Captured(cell, st) == [source |-> cell, stream |-> st]

\* cp -r d/ "$dir/d/": into a fresh destination the tree is copied as d;
\* when the destination directory exists GNU cp copies the directory into it
\* (d/d/...), BSD cp copies the contents over it
CopyInto(dst, f, d, impl) ==
  LET sub == {q \in DOMAIN f : IsPrefix(d, q)}
      nested == Exists(dst, d) /\ impl = "gnu"
      target(q) == IF nested THEN d \o q ELSE q
      new == {target(q) : q \in sub}
  IN [r \in new |-> f[CHOOSE q \in sub : target(q) = r]] @@ dst

\* cp p "$dir/"
CopyFile(dst, f, p) == (p :> f[p]) @@ dst

\* the find without -not -path './scripts/outputs/*'
ExcludedDirsWithoutOutputs ==
  { <<"node_modules">>, <<".git">>, <<".claude">>, <<".tutorial-snapshots">>,
    <<"vhs", "output">> }

ExcludedDirs ==
  { <<"node_modules">>, <<".git">>, <<".claude">>, <<".tutorial-snapshots">>,
    <<"scripts", "outputs">>, <<"vhs", "output">> }

\* the order sort gives the lines ./<path> of the files of the workspace,
\* up to ./scripts/generate-article-outputs.sh and after it; the lines
\* ./scripts/outputs/... come between the two
SortOrder ==
  << GitHead, TutorialMd, Notebook, DpConfig, ArchitectureMd, BusinessRulesMd,
     ReferenceMd, OverviewMd, PatternsMd, RoadmapMd, TaxonomyMd, InstalledPkg,
     PkgLock, PkgJson, ThisScript >>

SortOrderAfterOutputs ==
  << AuthHandlerTs, EventStoreTs, UserServiceTs, AuthFeature, UserRegFeature,
     NotificationStub, TsConfig, RecordAllSh >>

\* the elements of a set in some order
RECURSIVE SeqOf(_)
SeqOf(S) ==
  IF S = {} THEN <<>>
  ELSE LET x == CHOOSE y \in S : TRUE IN <<x>> \o SeqOf(S \ {x})

\* find . -type f -not -path ... | sort, f being everything under the
\* project directory, $OUT included
TreeListing(f) ==
  LET Listed(p) == IsFile(f, p) /\ \A x \in ExcludedDirs : ~IsPrefix(x, p)
  IN SelectSeq(SortOrder, Listed)
       \o SeqOf({p \in DOMAIN f : IsPrefix(OutDir, p) /\ Listed(p)})
       \o SelectSeq(SortOrderAfterOutputs, Listed)

NoDir == [copy |-> Empty, tree |-> <<>>]

\* snapshot_files label, under set -e: status 1 is the failing cp that ends
\* the script, dir is what $OUT/snapshots/<label> holds at that point
SnapshotFiles(old, f, impl, here) ==
  LET c1 == IF IsDir(f, SrcDir) THEN CopyInto(old.copy, f, SrcDir, impl) ELSE old.copy
      c2 == IF IsFile(f, DpConfig) THEN CopyFile(c1, f, DpConfig) ELSE c1
      c3 == IF IsFile(f, TsConfig) THEN CopyFile(c2, f, TsConfig) ELSE c2
      c4 == CopyFile(c3, f, PkgJson)
      c5 == IF IsDir(f, DocsDir) THEN CopyInto(c4, f, DocsDir, impl) ELSE c4
      \* what find sees: "$dir" filled, and tree.txt opened by the redirection
      seen == ((here \o <<"tree.txt">>) :> "tree")
                @@ [q \in {here \o r : r \in DOMAIN c5} |->
                      c5[SubSeq(q, Len(here) + 1, Len(q))]]
                @@ f
  IN IF ~IsFile(f, PkgJson)
     THEN [status |-> 1, dir |-> [copy |-> c3, tree |-> old.tree]]
     ELSE [status |-> 0, dir |-> [copy |-> c5, tree |-> TreeListing(seen)]]

CpImpls == {"gnu", "bsd"}

\* the package entry without its || echo 'unknown'
PackageVersionNoFallback(f) == IF IsFile(f, InstalledPkg) THEN f[InstalledPkg] ELSE ""

\* the package entry of environment.txt
PackageVersion(f) == IF IsFile(f, InstalledPkg) THEN f[InstalledPkg] ELSE "unknown"

EnvironmentKeys == <<"date", "node", "npm", "os", "package">>

\* the lines "key: value" capture_environment echoes; date, node, npm and
\* uname print what the machine gives
EnvironmentLines(f) ==
  [i \in DOMAIN EnvironmentKeys |->
     [key |-> EnvironmentKeys[i],
      value |-> IF EnvironmentKeys[i] = "package" THEN PackageVersion(f)
                ELSE EnvironmentKeys[i]]]

\* the entry written into a directory emptied first
PutAlone(m, k, v) == k :> v

Put(m, k, v) == (k :> v) @@ m

\* mkdir -p "$dir": the directory as it is, or a new empty one
DirOf(snaps, d) == IF d \in DOMAIN snaps THEN snaps[d] ELSE NoDir

\* "$OUT/snapshots/$label"
SnapshotPath(d) == OutDir \o <<"snapshots", d>>

\* $OUT as paths of the project directory: the captured outputs and the
\* snapshot directories with their copies and their tree.txt
OutTree(outs, snaps) ==
  LET caps == {OutDir \o <<k>> : k \in DOMAIN outs}
      trees == {SnapshotPath(d) \o <<"tree.txt">> : d \in DOMAIN snaps}
      Copies(d) == {SnapshotPath(d) \o r : r \in DOMAIN snaps[d].copy}
      copies == UNION {Copies(d) : d \in DOMAIN snaps}
      CopyOf(q) == snaps[q[4]].copy[SubSeq(q, 5, Len(q))]
  IN [q \in caps |-> "captured"] @@ [q \in trees |-> "tree"]
       @@ [q \in copies |-> CopyOf(q)]
       @@ (OutDir :> DIR) @@ (SnapshotPath("") :> DIR)

\* the project directory with $OUT in it
Disk(f, outs, snaps) == OutTree(outs, snaps) @@ f

NotPrinted == [cellOutputs |-> 0, snapshots |-> 0]

\* no earlier run: no $OUT
NoPrev == [outputs |-> Empty, snapshots |-> Empty]

\* record-all.sh not started: FAILED=0 and the loop at its first tape
RecordingIdle ==
  /\ tape = 1
  /\ FAILED = 0
  /\ recorded = <<>>
  /\ gifs = {}
  /\ recPc = "loop"
  /\ recExit = RUNNING

\* the reference of the array in EventStore's private field events
EventsRef == 0

\* the caller holds no array
NoRef == -1

\* no call made yet
NoCall == [op |-> "none"]

\* the sample classes just constructed: an empty events array, an empty Map
SamplesIdle ==
  /\ arrays = (EventsRef :> <<>>)
  /\ held = NoRef
  /\ appended = <<>>
  /\ clock = 0
  /\ got = NoCall
  /\ users = Empty
  /\ userRet = NoCall
  /\ authCall = NoCall

-----------------------------------------------------------------------------
(* Workspaces a run can start from *)

\* a clone the tutorial has not been run in, with a recording in vhs/output
FreshClone ==
  [p \in {Notebook, ThisScript, GitHead, TutorialMd, RecordAllSh, PkgJson,
          OldGif, VhsOutput, <<"scripts">>, <<".git">>, <<"vhs">>,
          <<".tutorial-snapshots">>, <<".tutorial-snapshots", "01-v1-manual">>} |->
     IF p \in {Notebook, ThisScript, GitHead, TutorialMd, RecordAllSh} THEN "tracked"
     ELSE IF p = PkgJson THEN "minimal"
     ELSE IF p = OldGif THEN "gif" ELSE DIR]

\* the workspace after steps i..n of the step list, every cell succeeding
RECURSIVE RunCells(_, _, _)
RunCells(f, i, n) ==
  IF i > n THEN f
  ELSE LET g == IF Program[i].kind = "cell" THEN CellEffect(Program[i].name, f) ELSE f
       IN IF DOMAIN g = {} THEN g ELSE RunCells(g, i + 1, n)

UsedWorkspace == RunCells(FreshClone, 1, NumSteps)

InitWorkspaces ==
  {FreshClone, UsedWorkspace, RmRf(FreshClone, PkgJson), RmRf(UsedWorkspace, PkgJson)}

-----------------------------------------------------------------------------
(* The pipeline run *)

Init ==
  /\ fs \in InitWorkspaces
  /\ outputs = Empty
  /\ snapshots = Empty
  /\ pc = 1
  /\ exitStatus = RUNNING
  /\ trace = <<>>
  /\ taken = Empty
  /\ firstSnap = Empty
  /\ printed = NotPrinted
  /\ runs = 1
  /\ nfail = 0
  /\ cpImpl \in CpImpls
  /\ calls = 0
  /\ broken = {}
  /\ prev = NoPrev
  /\ RecordingIdle
  /\ SamplesIdle

Running == exitStatus = RUNNING /\ pc \in 1..NumSteps

Event(step, st) == [kind |-> step.kind, name |-> step.name, status |-> st]

\* rm -rf "$OUT"; mkdir -p "$OUT/snapshots"
CleanOutputs ==
  /\ Running /\ Program[pc].kind = "clean"
  /\ outputs' = Empty
  /\ snapshots' = Empty
  /\ taken' = Empty
  /\ firstSnap' = Empty
  /\ trace' = Append(trace, Event(Program[pc], "ok"))
  /\ pc' = pc + 1
  /\ UNCHANGED <<fs, exitStatus, printed, runs, nfail, cpImpl, calls, broken, prev, recVars, sampleVars>>

\* run_and_capture <cell>: the cell's commands either take effect (ok) or the
\* cell cannot be run and leaves the workspace as it is (fail); the output
\* file is written in both cases
CaptureCell(st) ==
  LET cell == Program[pc].name
      rc == RunAndCaptureStatus(st)
  IN /\ fs' = IF st = "ok" THEN CellEffect(cell, fs) ELSE fs
     /\ outputs' = Put(outputs, OutputStem(cell), Captured(cell, st))
     /\ trace' = Append(trace, Event(Program[pc], st))
     /\ IF rc = 0
        THEN pc' = pc + 1 /\ exitStatus' = RUNNING
        ELSE pc' = pc /\ exitStatus' = rc

RunAndCapture ==
  /\ Running /\ Program[pc].kind = "cell"
  /\ \E st \in {"ok", "fail"} :
       /\ st = "fail" => nfail < MaxFail
       /\ nfail' = IF st = "fail" THEN nfail + 1 ELSE nfail
       /\ CaptureCell(st)
  /\ UNCHANGED <<snapshots, taken, firstSnap, printed, runs, cpImpl, calls, broken, prev, recVars, sampleVars>>

\* capture_environment
CaptureEnvironment ==
  /\ Running /\ Program[pc].kind = "env"
  /\ outputs' = Put(outputs, "environment", Captured("environment", EnvironmentLines(fs)))
  /\ trace' = Append(trace, Event(Program[pc], "ok"))
  /\ pc' = pc + 1
  /\ UNCHANGED <<fs, snapshots, exitStatus, taken, firstSnap, printed, runs, nfail, cpImpl, calls, broken, prev, recVars, sampleVars>>

\* one call snapshot_files <label> on the workspace fs; a failing command
\* inside it ends the script with that status (set -e)
CallSnapshotFiles(l) ==
  LET d == SnapshotDir(l)
      r == SnapshotFiles(DirOf(snapshots, d), Disk(fs, outputs, snapshots),
                         cpImpl, SnapshotPath(d))
  IN /\ snapshots' = Put(snapshots, d, r.dir)
     /\ taken' = Put(taken, l, [ws |-> fs, status |-> r.status])
     /\ firstSnap' = IF l \in DOMAIN firstSnap THEN firstSnap
                     ELSE Put(firstSnap, l, r.dir)
     /\ trace' = Append(trace, [kind |-> "snap", name |-> l,
                                status |-> IF r.status = 0 THEN "ok" ELSE "fail"])
     /\ exitStatus' = IF r.status = 0 THEN RUNNING ELSE r.status

\* snapshot_files <label>
TakeSnapshot ==
  /\ Running /\ Program[pc].kind = "snap"
  /\ CallSnapshotFiles(Program[pc].name)
  /\ pc' = IF exitStatus' = RUNNING THEN pc + 1 ELSE pc
  /\ UNCHANGED <<fs, outputs, printed, runs, nfail, cpImpl, calls, broken, prev, recVars, sampleVars>>

\* ls "$OUT"/*.txt | wc -l ; ls -d "$OUT"/snapshots/*/ | wc -l (pipefail)
PrintSummary ==
  /\ Running /\ Program[pc].kind = "summary"
  /\ IF DOMAIN outputs = {} \/ DOMAIN snapshots = {}
     THEN exitStatus' = 1 /\ printed' = printed
     ELSE /\ exitStatus' = 0
          /\ printed' = [cellOutputs |-> Cardinality(DOMAIN outputs),
                         snapshots |-> Cardinality(DOMAIN snapshots)]
  /\ trace' = Append(trace, Event(Program[pc], "ok"))
  /\ pc' = pc + 1
  /\ UNCHANGED <<fs, outputs, snapshots, taken, firstSnap, runs, nfail, cpImpl, calls, broken, prev, recVars, sampleVars>>

\* the script is started again on the workspace the last run left
Rerun ==
  /\ exitStatus # RUNNING
  /\ runs < MaxRuns
  /\ calls = 0
  /\ runs' = runs + 1
  /\ pc' = 1
  /\ exitStatus' = RUNNING
  /\ trace' = <<>>
  /\ printed' = NotPrinted
  /\ UNCHANGED <<fs, outputs, snapshots, taken, firstSnap, nfail, cpImpl, calls, broken, prev, recVars, sampleVars>>

Next ==
  \/ CleanOutputs
  \/ RunAndCapture
  \/ CaptureEnvironment
  \/ TakeSnapshot
  \/ PrintSummary
  \/ Rerun

Spec == Init /\ [][Next]_vars

-----------------------------------------------------------------------------
(* The pipeline run twice in a row on one machine: a cell that cannot run   *)
(* there fails in every run                                                 *)

\* the cells of Phase 0
Phase0Cells == {Phase0[i].name : i \in {j \in DOMAIN Phase0 : Phase0[j].kind = "cell"}}

BrokenSets == {b \in SUBSET Phase0Cells : Cardinality(b) <= MaxFail}

TwiceInit ==
  /\ fs \in InitWorkspaces
  /\ outputs = Empty
  /\ snapshots = Empty
  /\ pc = 1
  /\ exitStatus = RUNNING
  /\ trace = <<>>
  /\ taken = Empty
  /\ firstSnap = Empty
  /\ printed = NotPrinted
  /\ runs = 1
  /\ nfail = 0
  /\ cpImpl \in CpImpls
  /\ calls = 0
  /\ broken \in BrokenSets
  /\ prev = NoPrev
  /\ RecordingIdle
  /\ SamplesIdle

\* run_and_capture <cell> on this machine
RunAndCaptureHere ==
  /\ Running /\ Program[pc].kind = "cell"
  /\ CaptureCell(IF Program[pc].name \in broken THEN "fail" ELSE "ok")
  /\ UNCHANGED <<snapshots, taken, firstSnap, printed, runs, nfail, cpImpl, calls, broken, prev, recVars, sampleVars>>

\* the script is started again with nothing changed in between
RunAgain ==
  /\ exitStatus # RUNNING
  /\ runs < MaxRuns
  /\ runs' = runs + 1
  /\ pc' = 1
  /\ exitStatus' = RUNNING
  /\ trace' = <<>>
  /\ printed' = NotPrinted
  /\ prev' = [outputs |-> outputs, snapshots |-> snapshots]
  /\ UNCHANGED <<fs, outputs, snapshots, taken, firstSnap, nfail, cpImpl, calls, broken, recVars, sampleVars>>

TwiceNext ==
  \/ CleanOutputs
  \/ RunAndCaptureHere
  \/ CaptureEnvironment
  \/ TakeSnapshot
  \/ PrintSummary
  \/ RunAgain

TwiceSpec == TwiceInit /\ [][TwiceNext]_vars

-----------------------------------------------------------------------------
(* snapshot_files on its own: repeated calls on a workspace that does not   *)
(* change, as when a label is snapshotted again                            *)

\* the labels the repeated calls use: the first MaxLabels of the step list
SnapLabels ==
  {Program[i].name : i \in {j \in StepsOfKind("snap") :
                               Cardinality({k \in StepsOfKind("snap") : k < j}) < MaxLabels}}

\* workspaces of every stage of the tutorial
SnapWorkspaces ==
  {RunCells(w, 1, k) : w \in InitWorkspaces, k \in 0..NumSteps}

SnapInit ==
  /\ fs \in SnapWorkspaces
  /\ outputs = Empty
  /\ snapshots = Empty
  /\ pc = 0
  /\ exitStatus = RUNNING
  /\ trace = <<>>
  /\ taken = Empty
  /\ firstSnap = Empty
  /\ printed = NotPrinted
  /\ runs = 1
  /\ nfail = 0
  /\ cpImpl \in CpImpls
  /\ calls = 0
  /\ broken = {}
  /\ prev = NoPrev
  /\ RecordingIdle
  /\ SamplesIdle

SnapCall ==
  /\ pc = 0 /\ exitStatus = RUNNING
  /\ calls < MaxCalls
  /\ \E l \in SnapLabels : CallSnapshotFiles(l)
  /\ calls' = calls + 1
  /\ UNCHANGED <<fs, outputs, pc, printed, runs, nfail, cpImpl, broken, prev, recVars, sampleVars>>

SnapNext == SnapCall

SnapSpec == SnapInit /\ [][SnapNext]_vars

-----------------------------------------------------------------------------
(* vhs/record-all.sh: records every tape, then lists the recordings and      *)
(* reports                                                                 *)

\* "$SCRIPT_DIR"/part-*.tape, in the order pathname expansion gives
Tapes ==
  << "part-00-setup", "part-01-project", "part-02-config", "part-03-first",
     "part-04-richness", "part-05-relations", "part-06-docs", "part-07-gherkin",
     "part-08-stubs", "part-09-full-gen", "part-10-advanced" >>

\* the recording each tape writes into vhs/output
Gifs ==
  << "part-00-setup.gif", "part-01-project-setup.gif", "part-02-configuration.gif",
     "part-03-first-annotation.gif", "part-04-richness.gif",
     "part-05-relationships.gif", "part-06-doc-generation.gif",
     "part-07-gherkin-specs.gif", "part-08-design-stubs.gif",
     "part-09-full-generation.gif", "part-10-advanced-queries.gif" >>

\* vhs "$tape" run as a plain command: its failure is the script's (set -e)
RecordStatusUnguarded(st) == IF st = "ok" THEN 0 ELSE 1

\* if vhs "$tape" 2>&1 | tail -1; then ... else ... fi: the pipeline is the
\* condition of an if, so its status never ends the script; the value is
\* the status the if statement leaves
RecordStatus(st) == 0

\* ls of a name that does not exist: 2 with GNU coreutils, 1 with BSD
LsMissingStatus(impl) == IF impl = "gnu" THEN 2 ELSE 1

RecInit ==
  /\ fs = FreshClone
  /\ outputs = Empty
  /\ snapshots = Empty
  /\ pc = 1
  /\ exitStatus = RUNNING
  /\ trace = <<>>
  /\ taken = Empty
  /\ firstSnap = Empty
  /\ printed = NotPrinted
  /\ runs = 1
  /\ nfail = 0
  /\ cpImpl \in CpImpls
  /\ calls = 0
  /\ broken = {}
  /\ prev = NoPrev
  /\ tape = 1
  /\ FAILED = 0
  /\ recorded = <<>>
  /\ gifs \in {{}, {Gifs[1]}}
  /\ recPc = "loop"
  /\ recExit = RUNNING
  /\ SamplesIdle

\* one iteration of for tape in "$SCRIPT_DIR"/part-*.tape
RecordTape ==
  /\ recExit = RUNNING /\ recPc = "loop" /\ tape <= Len(Tapes)
  /\ \E st \in {"ok", "fail"} :
       LET rc == RecordStatus(st)
       IN /\ recorded' = Append(recorded, [tape |-> Tapes[tape], status |-> st])
          /\ gifs' = IF st = "ok" THEN gifs \cup {Gifs[tape]} ELSE gifs
          /\ IF rc = 0
             THEN /\ FAILED' = IF st = "ok" THEN FAILED ELSE FAILED + 1
                  /\ tape' = tape + 1
                  /\ recExit' = RUNNING
                  /\ recPc' = "loop"
             ELSE /\ FAILED' = FAILED
                  /\ tape' = tape
                  /\ recExit' = rc
                  /\ recPc' = "aborted"
  /\ UNCHANGED <<pipeVars, sampleVars>>

\* after the loop: ls -lh "$SCRIPT_DIR/output/"*.gif 2>/dev/null, under set -e
ListRecordings ==
  /\ recExit = RUNNING /\ recPc = "loop" /\ tape > Len(Tapes)
  /\ IF gifs = {}
     THEN recExit' = LsMissingStatus(cpImpl) /\ recPc' = "aborted"
     ELSE recExit' = RUNNING /\ recPc' = "report"
  /\ UNCHANGED <<tape, FAILED, recorded, gifs>>
  /\ UNCHANGED <<pipeVars, sampleVars>>

\* if [ "$FAILED" -gt 0 ]; then ... exit 1; else ... fi
Report ==
  /\ recExit = RUNNING /\ recPc = "report"
  /\ recExit' = IF FAILED > 0 THEN 1 ELSE 0
  /\ recPc' = "reported"
  /\ UNCHANGED <<tape, FAILED, recorded, gifs>>
  /\ UNCHANGED <<pipeVars, sampleVars>>

RecNext ==
  \/ RecordTape
  \/ ListRecordings
  \/ Report

RecSpec == RecInit /\ [][RecNext]_vars

-----------------------------------------------------------------------------
(* src/sample-sources/event-store.ts: class EventStore and a caller that    *)
(* keeps and changes the arrays it gets back                                *)

\* the pipeline and record-all.sh not running
ScriptsIdle ==
  /\ fs = FreshClone
  /\ outputs = Empty
  /\ snapshots = Empty
  /\ pc = 1
  /\ exitStatus = RUNNING
  /\ trace = <<>>
  /\ taken = Empty
  /\ firstSnap = Empty
  /\ printed = NotPrinted
  /\ runs = 1
  /\ nfail = 0
  /\ cpImpl = "gnu"
  /\ calls = 0
  /\ broken = {}
  /\ prev = NoPrev
  /\ RecordingIdle

EventTypes == {"UserRegistered", "UserDeactivated"}

Payloads == {"alice", "bob"}

\* an event the store never made, written by the caller into its array
ForgedEvent == [type |-> "Forged", payload |-> "mallory", timestamp |-> 0]

\* the reference of a newly allocated array; arrays no one holds any more
\* are dropped
NewRef == 1

\* getAll handing out the events array itself: return this.events
GetAllTargetAliased == EventsRef

\* getAll: [...this.events] is a new array
GetAllTarget == NewRef

\* filter keeping the events of the other types
FilterByOtherType(es, t) ==
  IF es = <<>> THEN <<>>
  ELSE SelectSeq(es, LAMBDA e : e.type # t)

\* this.events.filter((e) => e.type === type): the elements are visited in
\* index order and the matching ones pushed onto a new array
RECURSIVE FilterByType(_, _)
FilterByType(es, t) ==
  IF es = <<>> THEN <<>>
  ELSE (IF Head(es).type = t THEN <<Head(es)>> ELSE <<>>) \o FilterByType(Tail(es), t)

EventInit ==
  /\ ScriptsIdle
  /\ SamplesIdle

\* time passes
Tick ==
  /\ clock < MaxClock
  /\ clock' = clock + 1
  /\ UNCHANGED <<arrays, held, appended, got, users, userRet, authCall>>
  /\ UNCHANGED <<pipeVars, recVars>>

\* append(type, payload)
EventAppend ==
  /\ Len(appended) < MaxAppends
  /\ \E t \in EventTypes, p \in Payloads :
       LET e == [type |-> t, payload |-> p, timestamp |-> clock]
       IN /\ arrays' = [arrays EXCEPT ![EventsRef] = Append(@, e)]
          /\ appended' = Append(appended, e)
  /\ UNCHANGED <<held, clock, got, users, userRet, authCall>>
  /\ UNCHANGED <<pipeVars, recVars>>

\* getAll()
EventGetAll ==
  /\ arrays' = (GetAllTarget :> arrays[EventsRef]) @@ (EventsRef :> arrays[EventsRef])
  /\ held' = GetAllTarget
  /\ got' = [op |-> "getAll", type |-> "", at |-> Len(appended),
              value |-> arrays[EventsRef]]
  /\ UNCHANGED <<appended, clock, users, userRet, authCall>>
  /\ UNCHANGED <<pipeVars, recVars>>

\* getByType(type)
EventGetByType ==
  /\ \E t \in EventTypes :
       LET r == FilterByType(arrays[EventsRef], t)
       IN /\ arrays' = (NewRef :> r) @@ (EventsRef :> arrays[EventsRef])
          /\ got' = [op |-> "getByType", type |-> t, at |-> Len(appended),
                      value |-> r]
  /\ held' = NewRef
  /\ UNCHANGED <<appended, clock, users, userRet, authCall>>
  /\ UNCHANGED <<pipeVars, recVars>>

\* the caller changes the array it holds: pop(), push(e), a[0] = e
CallerChangesArray ==
  /\ held # NoRef
  /\ \/ /\ arrays[held] # <<>>
        /\ arrays' = [arrays EXCEPT ![held] = SubSeq(@, 1, Len(@) - 1)]
     \/ /\ Len(arrays[held]) < MaxAppends
        /\ arrays' = [arrays EXCEPT ![held] = Append(@, ForgedEvent)]
     \/ /\ arrays[held] # <<>>
        /\ arrays' = [arrays EXCEPT ![held] = [@ EXCEPT ![1] = ForgedEvent]]
  /\ UNCHANGED <<held, appended, clock, got, users, userRet, authCall>>
  /\ UNCHANGED <<pipeVars, recVars>>

EventNext ==
  \/ Tick
  \/ EventAppend
  \/ EventGetAll
  \/ EventGetByType
  \/ CallerChangesArray

EventSpec == EventInit /\ [][EventNext]_vars

-----------------------------------------------------------------------------
(* class UserService                                                        *)

\* the ids crypto.randomUUID() can return, each new one different from the
\* ids in use
UserIds == 1..MaxUsers

Emails == {"", "alice@example.com", "bob@example.com"}

\* the null of findById
Null == [null |-> TRUE]

\* deactivate marking every user
DeactivatedAll(us, id) ==
  [u \in DOMAIN us |-> [us[u] EXCEPT !.active = FALSE]]

\* user.active = false on the record of id
Deactivated(us, id) ==
  [us EXCEPT ![id].active = FALSE]

UserInit ==
  /\ ScriptsIdle
  /\ SamplesIdle

\* register(email)
UserRegister ==
  /\ \E email \in Emails, id \in UserIds \ DOMAIN users :
       /\ users' = (id :> [id |-> id, email |-> email, active |-> TRUE]) @@ users
       /\ userRet' = [op |-> "register", email |-> email, id |-> id,
                       value |-> [id |-> id]]
  /\ UNCHANGED <<arrays, held, appended, clock, got, authCall>>
  /\ UNCHANGED <<pipeVars, recVars>>

\* findById(id)
UserFindById ==
  /\ \E id \in UserIds :
       userRet' = [op |-> "findById", email |-> "", id |-> id,
                   value |-> IF id \in DOMAIN users THEN users[id] ELSE Null]
  /\ UNCHANGED <<arrays, held, appended, clock, got, users, authCall>>
  /\ UNCHANGED <<pipeVars, recVars>>

\* deactivate(id)
UserDeactivate ==
  /\ \E id \in UserIds :
       IF id \notin DOMAIN users
       THEN /\ users' = users
            /\ userRet' = [op |-> "deactivate", email |-> "", id |-> id,
                            value |-> [ok |-> FALSE]]
       ELSE /\ users' = Deactivated(users, id)
            /\ userRet' = [op |-> "deactivate", email |-> "", id |-> id,
                            value |-> [ok |-> TRUE]]
  /\ UNCHANGED <<arrays, held, appended, clock, got, authCall>>
  /\ UNCHANGED <<pipeVars, recVars>>

UserNext ==
  \/ UserRegister
  \/ UserFindById
  \/ UserDeactivate

UserSpec == UserInit /\ [][UserNext]_vars

-----------------------------------------------------------------------------
(* class AuthHandler                                                        *)

\* strings as sequences of UTF-16 code units, which .length counts
AuthEmails == {<<>>, <<"a">>, <<"a", "@", "b">>}

Passwords == {[i \in 1..n |-> "x"] : n \in 0..MaxPassword}

MinPassword == 8

\* an error naming the field that was wrong
AuthErrorTelling(email, password) ==
  IF Len(email) = 0 THEN "Invalid email" ELSE "Invalid password"

\* error: "Invalid credentials"
AuthError(email, password) == "Invalid credentials"

\* authenticate(email, password) at time now
Authenticate(email, password, now) ==
  IF Len(email) = 0 \/ Len(password) < MinPassword
  THEN [success |-> FALSE, error |-> AuthError(email, password)]
  ELSE [success |-> TRUE, sessionId |-> <<"session-", now>>]

AuthInit ==
  /\ ScriptsIdle
  /\ SamplesIdle

\* a call of authenticate; the call before it is kept beside it
AuthCall ==
  /\ \E email \in AuthEmails, password \in Passwords :
       LET c == [email |-> email, password |-> password,
                 result |-> Authenticate(email, password, clock)]
       IN authCall' = [op |-> "authenticate", last |-> c,
                       before |-> IF authCall.op = "none" THEN c ELSE authCall.last]
  /\ UNCHANGED <<arrays, held, appended, clock, got, users, userRet>>
  /\ UNCHANGED <<pipeVars, recVars>>

AuthNext ==
  \/ Tick
  \/ AuthCall

AuthSpec == AuthInit /\ [][AuthNext]_vars

TypeOK ==
  /\ pc \in 0..(NumSteps + 1)
  /\ exitStatus \in {RUNNING, 0, 1}
  /\ runs \in 1..MaxRuns
  /\ nfail \in 0..MaxFail
  /\ DOMAIN snapshots \subseteq Labels
  /\ cpImpl \in CpImpls
  /\ calls \in 0..MaxCalls
  /\ DOMAIN outputs \subseteq CellNames \cup {"environment"}
  /\ broken \subseteq CellNames
  /\ tape \in 1..(Len(Tapes) + 1)
  /\ FAILED \in 0..Len(Tapes)
  /\ recPc \in {"loop", "report", "reported", "aborted"}
  /\ recExit \in {RUNNING, 0, 1, 2}
  /\ DOMAIN arrays \subseteq {EventsRef, NewRef}
  /\ held \in {NoRef, EventsRef, NewRef}
  /\ Len(appended) <= MaxAppends
  /\ clock \in 0..MaxClock
  /\ DOMAIN users \subseteq UserIds
  /\ \A u \in DOMAIN users : users[u].id = u /\ users[u].email \in Emails

-----------------------------------------------------------------------------
(* Properties *)

Halted == exitStatus # RUNNING

IsReset(e) == e.kind = "cell" /\ e.name = "reset-workspace"

ResetFailed == \E i \in DOMAIN trace : IsReset(trace[i]) /\ trace[i].status = "fail"

Attempted(l) == \E i \in DOMAIN trace : trace[i].kind = "snap" /\ trace[i].name = l

CellEvents == {i \in DOMAIN trace : trace[i].kind = "cell"}

FailedCells == {i \in CellEvents : trace[i].status = "fail"}

DesignatedPaths == {SrcDir, DpConfig, TsConfig, PkgJson, DocsDir}

\* the designated paths of a workspace with everything below them
Designated(f) ==
  Restrict(f, {r \in DOMAIN f : \E p \in DesignatedPaths : IsPrefix(p, r)})

\* C1: whatever the cells' outcomes, a run that is not stopped by a failed
\* Workspace Reset attempts all eleven parts and exits with status 0, and no
\* step other than the reset ends a run with a non-zero status.
C1_OnlyResetEndsRun ==
  Halted =>
    /\ ~ResetFailed => (exitStatus = 0 /\ \A l \in Labels : Attempted(l))
    /\ exitStatus # 0 => IsReset(trace[Len(trace)])

\* C2: when the reset-workspace cell fails the run stops there: the reset is
\* the last step executed and the exit status is non-zero.
C2_FailedResetAborts ==
  ResetFailed => (IsReset(trace[Len(trace)]) /\ exitStatus \notin {RUNNING, 0})

\* C3: run_and_capture returns normally whatever the cell's outcome: after a
\* cell step the script is still running and stands at the next step of the
\* fixed order.
C3_CellNeverStopsRun ==
  [][(Running /\ Program[pc].kind = "cell")
       => (exitStatus' = RUNNING /\ pc' = pc + 1 /\ Len(trace') = Len(trace) + 1)]_vars

\* a failed cell with a later step executed after it
C3_Witness == \E i \in FailedCells : i < Len(trace)

\* C4: in a run that reached the summary, every cell executed has its own
\* captured-output file holding that execution's merged output, succeeded or
\* failed, and there are as many such files as cells executed.
C4_OneOutputPerCell ==
  exitStatus = 0 =>
    /\ \A i \in CellEvents :
         /\ trace[i].name \in DOMAIN outputs
         /\ outputs[trace[i].name] = Captured(trace[i].name, trace[i].status)
    /\ Cardinality(DOMAIN outputs \ {"environment"}) = Cardinality(CellEvents)

\* a finished run in which a cell failed
C4_Witness == exitStatus = 0 /\ FailedCells # {}

\* C5: a designated path missing when snapshot_files is called is no error:
\* the call completes, the run goes on and the snapshot lacks the path.
C5_MissingPathTolerated ==
  \A l \in DOMAIN taken : \A p \in DesignatedPaths :
    ~Exists(taken[l].ws, p) =>
      /\ taken[l].status = 0
      /\ p \notin DOMAIN snapshots[SnapshotDir(l)].copy

\* C6: the run executes the fixed step list in order, one step at a time,
\* and when it ends every cell and every snapshot has been executed exactly
\* once.
C6_FixedLinearTrace ==
  /\ Len(trace) <= NumSteps
  /\ \A i \in DOMAIN trace :
       trace[i].kind = Program[i].kind /\ trace[i].name = Program[i].name
  /\ Halted => Len(trace) = NumSteps

\* C7 as stated: the reset is the first operation of the run and the
\* environment capture is the step right after it.
C7_ResetThenEnvironment ==
  \A i \in DOMAIN trace :
    IsReset(trace[i]) =>
      /\ i = 1
      /\ (i + 1 \in DOMAIN trace => trace[i + 1].kind = "env")

\* C7 amended: the run first clears the output directory, then runs the
\* reset as its first cell, then install-deps, then the environment capture;
\* reset and environment capture happen once, before any snapshot and before
\* any other cell.
C7_ResetFirstCellThenInstallThenEnvironment ==
  /\ Len(trace) >= 1 => trace[1].kind = "clean"
  /\ Len(trace) >= 2 => IsReset(trace[2])
  /\ Len(trace) >= 3 => (trace[3].kind = "cell" /\ trace[3].name = "install-deps")
  /\ Len(trace) >= 4 => trace[4].kind = "env"
  /\ \A i \in DOMAIN trace :
       /\ IsReset(trace[i]) => i = 2
       /\ trace[i].kind = "env" => i = 4
       /\ trace[i].kind = "snap" => i > 4

\* the first snapshot taken after reset, install-deps and environment capture
C7_Witness == Len(trace) >= 5 /\ trace[5].kind = "snap"

\* C8: each snapshot directory holds exactly the designated paths of the
\* workspace snapshot_files was called on, with their contents.
C8_SnapshotHoldsExistingPaths ==
  \A l \in DOMAIN taken :
    /\ SnapshotDir(l) \in DOMAIN snapshots
    /\ snapshots[SnapshotDir(l)].copy = Designated(taken[l].ws)

\* C9 as stated: no step, the start of a later run included, changes or
\* removes a snapshot directory that exists.
C9_SnapshotNeverChanges ==
  [][\A d \in DOMAIN snapshots :
       d \in DOMAIN snapshots' /\ snapshots'[d] = snapshots[d]]_vars

\* C9 amended: no step of a run other than the clearing of the output
\* directory at the start of a run changes or removes a snapshot directory
\* that exists.
C9_SnapshotKeptUntilOutputsCleared ==
  [][~(Running /\ Program[pc].kind = "clean")
       => \A d \in DOMAIN snapshots :
            d \in DOMAIN snapshots' /\ snapshots'[d] = snapshots[d]]_vars

\* a run that finished after its first snapshot, which is still there
C9_Witness ==
  /\ exitStatus = 0
  /\ SnapshotDir("00-setup") \in DOMAIN snapshots
  /\ snapshots[SnapshotDir("00-setup")] = firstSnap["00-setup"]

\* C10: calling snapshot_files again with a label on an unchanged workspace
\* leaves the snapshot directory as the first call left it.
C10_SnapshotIdempotent ==
  \A l \in DOMAIN firstSnap : snapshots[SnapshotDir(l)] = firstSnap[l]

\* C11: the pipeline run twice in a row with nothing changed in between
\* leaves the same output directory both times: when the second run has
\* ended, the captured outputs and the snapshots are those of the first run.
C11_SecondRunSameOutputs ==
  (Halted /\ runs >= 2) => (outputs = prev.outputs /\ snapshots = prev.snapshots)

\* C12: capture_environment never ends the run and always writes a non-empty
\* environment.txt with the five keys date, node, npm, os, package in that
\* order; the package entry is the installed package's version, or 'unknown'
\* when the package is not installed.
C12_EnvironmentAlwaysWritten ==
  [][(Running /\ Program[pc].kind = "env")
       => /\ exitStatus' = RUNNING /\ pc' = pc + 1
          /\ "environment" \in DOMAIN outputs'
          /\ LET e == outputs'["environment"].stream
             IN /\ Len(e) = 5
                /\ <<e[1].key, e[2].key, e[3].key, e[4].key, e[5].key>>
                     = <<"date", "node", "npm", "os", "package">>
                /\ ~IsFile(fs, InstalledPkg) => e[5].value = "unknown"
                /\ IsFile(fs, InstalledPkg) => e[5].value = fs[InstalledPkg]]_vars

\* an environment.txt written while the package was not installed
C12_Witness ==
  /\ "environment" \in DOMAIN outputs
  /\ ~IsFile(fs, InstalledPkg)
  /\ outputs["environment"].stream[5].value = "unknown"

\* the regular files of a workspace outside the six excluded directories
ListedFiles(ws) ==
  {p \in DOMAIN ws :
     /\ ws[p] # DIR
     /\ p[1] \notin {"node_modules", ".git", ".claude", ".tutorial-snapshots"}
     /\ ~(Len(p) >= 2 /\ <<p[1], p[2]>> \in {<<"scripts", "outputs">>, <<"vhs", "output">>})}

\* the place of a line in the sorted order of the workspace's lines
LineRank(p) ==
  LET order == SortOrder \o SortOrderAfterOutputs
  IN CHOOSE k \in DOMAIN order : order[k] = p

\* C13: the tree.txt a completed snapshot_files call writes lists exactly the
\* regular files of the project directory outside the excluded directories,
\* one per line and in sorted order; no file under $OUT (captured outputs,
\* snapshots, the tree.txt being written) is listed.
C13_TreeListsWorkspaceFiles ==
  [][(Running /\ Program[pc].kind = "snap" /\ exitStatus' = RUNNING)
       => LET t == snapshots'[SnapshotDir(Program[pc].name)].tree
          IN /\ \A i \in DOMAIN t : ~IsPrefix(OutDir, t[i])
             /\ {t[i] : i \in DOMAIN t} = ListedFiles(fs)
             /\ \A i \in 1..(Len(t) - 1) : LineRank(t[i]) < LineRank(t[i + 1])]_vars

\* a snapshot taken while $OUT held captured outputs and an earlier snapshot
\* and the workspace held files of excluded directories
C13_Witness ==
  \E l \in DOMAIN taken :
    /\ taken[l].status = 0
    /\ Cardinality(DOMAIN snapshots) >= 2
    /\ DOMAIN outputs # {}
    /\ Len(snapshots[SnapshotDir(l)].tree) >= 5
    /\ {InstalledPkg, GitHead, TutorialMd, OldGif}
         \subseteq DOMAIN taken[l].ws

\* C14: after a reset-workspace cell that succeeded, whatever the workspace
\* was before, src/, docs-generated/, tsconfig.json and
\* delivery-process.config.ts do not exist, and package.json exists and is
\* the minimal one: the declared dependencies and no scripts.
C14_ResetLeavesCleanSlate ==
  [][(Running /\ Program[pc].kind = "cell" /\ Program[pc].name = "reset-workspace"
        /\ trace'[Len(trace')].status = "ok")
       => /\ \A p \in DOMAIN fs' :
               /\ ~IsPrefix(SrcDir, p) /\ ~IsPrefix(DocsDir, p)
               /\ p # TsConfig /\ p # DpConfig
          /\ IsFile(fs', PkgJson) /\ fs'[PkgJson] = "minimal"]_vars

\* a successful reset of a workspace the tutorial had been run in
C14_Witness ==
  /\ Len(trace) = 2 /\ IsReset(trace[2]) /\ trace[2].status = "ok"
  /\ IsFile(fs, InstalledPkg)
  /\ fs[PkgJson] = "minimal"

\* the snapshots the current run has completed
SnapsTaken ==
  {trace[i].name : i \in {j \in DOMAIN trace :
                             trace[j].kind = "snap" /\ trace[j].status = "ok"}}

SnapshotCopy(l) == snapshots[SnapshotDir(l)].copy

\* C15: in a run whose cells all succeed, the snapshots 00-setup to
\* 05-relationships are written without a docs-generated directory and every
\* snapshot from 06-doc-generation on with one; delivery-process.config.ts is
\* in every snapshot from 02-configuration on and in none before, src/ and
\* tsconfig.json in every snapshot from 01-project-setup on and not in 00-setup.
C15_PathsAppearInOrder ==
  [][(Running /\ Program[pc].kind = "snap" /\ FailedCells = {}
        /\ exitStatus' = RUNNING)
       => LET l == Program[pc].name
              c == snapshots'[SnapshotDir(l)].copy
          IN /\ DocsDir \in DOMAIN c
                  <=> l \notin {"00-setup", "01-project-setup", "02-configuration",
                                "03-first-annotation", "04-richness", "05-relationships"}
             /\ DpConfig \in DOMAIN c <=> l \notin {"00-setup", "01-project-setup"}
             /\ SrcDir \in DOMAIN c <=> l # "00-setup"
             /\ TsConfig \in DOMAIN c <=> l # "00-setup"]_vars

\* a finished run, every cell succeeded and all eleven snapshots taken
C15_Witness ==
  /\ exitStatus = 0
  /\ FailedCells = {}
  /\ SnapsTaken = Labels
  /\ DocsDir \in DOMAIN SnapshotCopy("06-doc-generation")

\* C16: the summary of a finished run prints as 'Cell outputs' the number of
\* cells the run executed and as 'Snapshots' eleven.
C16_SummaryCounts ==
  exitStatus = 0 =>
    /\ printed.cellOutputs = Cardinality(CellEvents)
    /\ printed.snapshots = 11

\* C17: run_and_capture for a cell writes that cell's captured-output file
\* and nothing else under $OUT: every other captured-output file,
\* environment.txt and every snapshot directory are as before.
C17_CaptureWritesOneFile ==
  [][(Running /\ Program[pc].kind = "cell")
       => LET c == Program[pc].name
          IN /\ DOMAIN outputs' = DOMAIN outputs \cup {c}
             /\ \A k \in DOMAIN outputs \ {c} : outputs'[k] = outputs[k]
             /\ snapshots' = snapshots]_vars

\* a cell just captured while $OUT held environment.txt, other captured
\* outputs and a snapshot
C17_Witness ==
  /\ trace # <<>> /\ trace[Len(trace)].kind = "cell"
  /\ "environment" \in DOMAIN outputs
  /\ Cardinality(DOMAIN outputs) >= 3
  /\ DOMAIN snapshots # {}

\* C18: no cell that runs the reference-docs generator (gen-all through
\* docs:all, gen-reference through docs:reference) is executed before
\* add-reference-config has been executed in the same run.
C18_ReferenceGeneratorAfterConfig ==
  \A i \in CellEvents :
    trace[i].name \in ReferenceGeneratorCells
      => \E j \in CellEvents : j < i /\ trace[j].name = "add-reference-config"

\* the number of regular files below a directory
FileCount(ws, d) == Cardinality({p \in DOMAIN ws : IsPrefix(d, p) /\ ws[p] # DIR})

\* C19: in a run whose cells all succeed, src/sample-sources holds one file
\* at the snapshots of Parts 3 and 4 (v1, v2 and final write one path) and
\* three from Part 5 on, src/specs holds two files from Part 7 on,
\* src/stubs one file from Part 8 on, none of them any file earlier, and the
\* run reaches its summary with exactly six source files under src/.
C19_SourceFileCounts ==
  [][(Running /\ FailedCells = {})
       => /\ Program[pc].kind = "snap" =>
               LET l == Program[pc].name
               IN /\ FileCount(fs, SampleDir) =
                       (IF l \in {"00-setup", "01-project-setup", "02-configuration"}
                        THEN 0
                        ELSE IF l \in {"03-first-annotation", "04-richness"}
                        THEN 1 ELSE 3)
                  /\ FileCount(fs, SpecsDir) =
                       (IF l \in {"07-gherkin", "08-stubs", "09-full-generation",
                                  "10-advanced"}
                        THEN 2 ELSE 0)
                  /\ FileCount(fs, StubsDir) =
                       (IF l \in {"08-stubs", "09-full-generation", "10-advanced"}
                        THEN 1 ELSE 0)
          /\ Program[pc].kind = "summary" => FileCount(fs, SrcDir) = 6]_vars

\* a finished run, every cell succeeded: three sources, two specs, one stub
C19_Witness ==
  /\ exitStatus = 0
  /\ FailedCells = {}
  /\ FileCount(fs, SampleDir) = 3
  /\ FileCount(fs, SpecsDir) = 2
  /\ FileCount(fs, StubsDir) = 1
  /\ fs[UserServiceTs] = "final"

\* C20: record-all.sh attempts the tapes one at a time in ascending part
\* order, part-00 first and part-10 last, each tape once; a failed tape is
\* counted and the loop goes on to the next tape, so that when the loop is
\* over all eleven tapes have been attempted.
C20_TapesInOrderOnceEach ==
  /\ Len(recorded) <= Len(Tapes)
  /\ \A i \in DOMAIN recorded : recorded[i].tape = Tapes[i]
  /\ recPc = "loop" => (recExit = RUNNING /\ tape = Len(recorded) + 1)
  /\ recPc # "loop" =>
       /\ Len(recorded) = 11
       /\ recorded[1].tape = "part-00-setup"
       /\ recorded[11].tape = "part-10-advanced"

\* all tapes attempted although the first one failed
C20_Witness ==
  /\ recPc # "loop"
  /\ Len(recorded) = 11
  /\ recorded[1].status = "fail"
  /\ recorded[11].status = "ok"

\* the tapes of the loop whose vhs run failed
FailedTapes == {i \in DOMAIN recorded : recorded[i].status = "fail"}

\* C21: when record-all.sh has exited, FAILED is the number of tapes whose
\* vhs run failed; with FAILED > 0 the script has printed the 'tape(s) failed'
\* line and exited 1, with FAILED = 0 it has printed 'All recordings
\* generated' and exited 0.
C21_ExitStatusTellsFailures ==
  recExit # RUNNING =>
    /\ FAILED = Cardinality(FailedTapes)
    /\ recPc = "reported"
    /\ recExit = (IF FailedTapes = {} THEN 0 ELSE 1)

\* C28: record-all.sh never exits without its final report: whatever the
\* tapes' outcomes and whatever vhs/output holds, an exited script has
\* printed one of its two final lines.
C28_ExitsOnlyAfterReport ==
  [][recExit' # RUNNING => recPc' = "reported"]_vars

\* the events array of the store
Stored == arrays[EventsRef]

\* C22: the store is append-only. Every step leaves the stored events as a
\* prefix of what is stored afterwards, only append changes them, and what
\* is stored is the sequence of the events appended, in call order; getAll
\* returns that sequence: after n appends n events, the first k of them the
\* ones getAll returned after the k-th append. Changing an array a query
\* returned changes nothing stored.
C22_AppendOnly ==
  [][/\ Len(Stored) <= Len(Stored')
     /\ SubSeq(Stored', 1, Len(Stored)) = Stored
     /\ appended' = appended => Stored' = Stored
     /\ Stored' = appended'
     /\ got'.op = "getAll" => got'.value = SubSeq(appended', 1, got'.at)]_vars

\* the array getAll returned has been changed by the caller and the store
\* holds its two events
C22_Witness ==
  /\ got.op = "getAll" /\ got.at = 2
  /\ held # NoRef /\ arrays[held] # got.value
  /\ Len(Stored) = 2

\* C23: each email address maps to exactly one user: no two stored records
\* have the same email, since register with an email already stored fails
\* and creates no record.
C23_OneUserPerEmail ==
  \A a, b \in DOMAIN users : users[a].email = users[b].email => a = b

\* C24: register with the empty email is rejected and leaves the stored
\* users unchanged.
C24_EmptyEmailRejected ==
  [][(userRet'.op = "register" /\ userRet'.email = "") => users' = users]_vars

\* the inputs on which authentication fails
AuthFails(c) == Len(c.email) = 0 \/ Len(c.password) < MinPassword

\* C25: authenticate never tells whether the email or the password was
\* wrong: any two failing calls (empty email, password shorter than 8, or
\* both) return the same result, success false with the error 'Invalid
\* credentials' and no sessionId, and a result carries a sessionId only when
\* its success is true.
C25_FailuresIndistinguishable ==
  authCall.op = "authenticate" =>
    LET a == authCall.last
        b == authCall.before
    IN /\ (AuthFails(a) /\ AuthFails(b)) => a.result = b.result
       /\ AuthFails(a) =>
            a.result = [success |-> FALSE, error |-> "Invalid credentials"]
       /\ "sessionId" \in DOMAIN a.result => a.result.success
       /\ ~AuthFails(a) => a.result.success

\* a call failing on the email alone after one failing on the password alone
C25_Witness ==
  /\ authCall.op = "authenticate"
  /\ Len(authCall.last.email) = 0
  /\ Len(authCall.last.password) >= MinPassword
  /\ Len(authCall.before.email) > 0
  /\ Len(authCall.before.password) < MinPassword
  /\ ~authCall.last.result.success

\* the cells run so far in this run of the script
CellsRun == {trace[i].name : i \in CellEvents}

\* C26: the reset undoes every cell. A cell of Parts 1-10 creates and
\* changes only what reset-workspace deletes or rewrites: the reset of the
\* workspace after the cell is the reset of the workspace before it, so at
\* any point of a run, its end included, a reset gives the workspace a reset
\* gives on the state snapshot 00-setup was taken of.
C26_ResetUndoesCells ==
  [][(Running /\ Program[pc].kind = "cell" /\ Program[pc].name \notin Phase0Cells) =>
       /\ ResetWorkspace(fs') = ResetWorkspace(fs)
       /\ "00-setup" \in DOMAIN taken' =>
            ResetWorkspace(fs') = ResetWorkspace(taken'["00-setup"].ws)]_vars

\* a complete run whose workspace is no longer the one of snapshot 00-setup
C26_Witness ==
  /\ exitStatus = 0
  /\ FailedCells = {}
  /\ {"00-setup", "10-advanced"} \subseteq DOMAIN taken
  /\ IsFile(fs, ReferenceMd) /\ IsFile(fs, NotificationStub)
  /\ fs # taken["00-setup"].ws

\* C27: every cell's prerequisites are established by an earlier cell. A
\* cell invoking npm run <script> runs after install-deps and
\* add-npm-scripts, <script> is one add-npm-scripts defines, and when no
\* cell has failed the package is installed and package.json holds the
\* scripts; a cell writing under src/sample-sources, src/specs or src/stubs
\* runs after create-folders and finds its directory; no cell other than
\* the reset removes the scripts or one of the three directories.
C27_PrerequisitesEarlier ==
  [][(Running /\ Program[pc].kind = "cell") =>
       LET c == Program[pc].name
       IN /\ ScriptsOf(c) # {} =>
               /\ {"install-deps", "add-npm-scripts"} \subseteq CellsRun
               /\ ScriptsOf(c) \subseteq DefinedScripts
               /\ FailedCells = {} =>
                    /\ IsFile(fs, PkgJson) /\ fs[PkgJson] = "scripts"
                    /\ IsFile(fs, InstalledPkg)
          /\ WritesUnder(c) # <<>> =>
               /\ "create-folders" \in CellsRun
               /\ FailedCells = {} => IsDir(fs, WritesUnder(c))
          /\ c # "reset-workspace" =>
               /\ (IsFile(fs, PkgJson) /\ fs[PkgJson] = "scripts") =>
                    (IsFile(fs', PkgJson) /\ fs'[PkgJson] = "scripts")
               /\ \A d \in {SampleDir, SpecsDir, StubsDir} :
                    IsDir(fs, d) => IsDir(fs', d)]_vars

\* the last cell has run its two scripts in a run without a failed cell
C27_Witness ==
  /\ CellEvents # {}
  /\ FailedCells = {}
  /\ "final-verification" \in CellsRun
  /\ CanNpmRun(fs)
  /\ \A d \in {SampleDir, SpecsDir, StubsDir} : IsDir(fs, d)

\* C29: findById of an unknown id returns null and of a registered id its
\* record, changing nothing; deactivate of an unknown id returns false and
\* changes nothing; deactivate of a registered id returns true and sets the
\* active flag of that user only to false, so repeating it changes nothing.
C29_FindAndDeactivate ==
  [][LET id == userRet'.id
     IN /\ userRet'.op = "findById" =>
             /\ users' = users
             /\ userRet'.value = (IF id \in DOMAIN users THEN users[id] ELSE Null)
        /\ (userRet'.op = "deactivate" /\ id \notin DOMAIN users) =>
             /\ users' = users
             /\ userRet'.value = [ok |-> FALSE]
        /\ (userRet'.op = "deactivate" /\ id \in DOMAIN users) =>
             /\ userRet'.value = [ok |-> TRUE]
             /\ DOMAIN users' = DOMAIN users
             /\ users'[id] = [users[id] EXCEPT !.active = FALSE]
             /\ \A u \in DOMAIN users \ {id} : users'[u] = users[u]
             /\ ~users[id].active => users' = users]_vars

\* a registered user has been deactivated while another one stays active
C29_Witness ==
  /\ userRet.op = "deactivate" /\ userRet.value = [ok |-> TRUE]
  /\ userRet.id \in DOMAIN users /\ ~users[userRet.id].active
  /\ \E u \in DOMAIN users : users[u].active

\* C30: getByType(t) returns exactly the stored events of type t in append
\* order, the events of type t among those getAll returns; it is empty when
\* no event of type t has been appended.
C30_GetByTypeIsSubsequence ==
  got.op = "getByType" =>
    LET before == SubSeq(appended, 1, got.at)
        idx == {i \in DOMAIN before : before[i].type = got.type}
    IN /\ Len(got.value) = Cardinality(idx)
       /\ \A k \in DOMAIN got.value :
            \E i \in idx :
              /\ got.value[k] = before[i]
              /\ Cardinality({j \in idx : j < i}) = k - 1
       /\ idx = {} => got.value = <<>>

\* a query that returned two of three stored events
C30_Witness ==
  /\ got.op = "getByType" /\ got.at = 3
  /\ Len(got.value) = 2

====
